---- MODULE Spec2Model ----
(***************************************************************************)
(* A model of wiremock's request.rs: the Request snapshot type, its        *)
(* Display rendering and the async constructor Request::from_hyper.        *)
(*                                                                         *)
(* Text produced by the program is a TLA+ string.  Text that the program   *)
(* PARSES (the request target handed to Url::parse) is a sequence of       *)
(* lexical tokens, e.g. <<"http", "://", "localhost", "/a/b?x=1">>, so     *)
(* that parsing is computed from the text and not from the record the      *)
(* text was printed from.  Bytes are integers 0..255.  An Option or a      *)
(* Result is a sequence of length 0 (None / Err) or 1 (Some / Ok).         *)
(***************************************************************************)
EXTENDS Integers, Sequences, FiniteSets, TLC

\* ------------------------------------------------------------------ bounds
\* Number of captures running concurrently under Spec.
NProcs == 2
\* Longest list of (name, value) header pairs of a raw request.
MaxHeaders == 2
\* Longest request body, in bytes.
MaxBody == 2
\* How many times one snapshot is rendered.
MaxRenders == 2

Procs == 1..NProcs

None == <<>>
Some(v) == <<v>>

\* ------------------------------------------------------- text and bytes
RECURSIVE Concat(_)
\* The text spelled by a sequence of tokens / pieces.
Concat(ts) == IF ts = <<>> THEN "" ELSE Head(ts) \o Concat(Tail(ts))

RECURSIVE Join(_, _)
\* [String]::join(sep)
Join(ss, sep) ==
    IF ss = <<>> THEN ""
    ELSE IF Len(ss) = 1 THEN ss[1]
    ELSE ss[1] \o sep \o Join(Tail(ss), sep)

\* ASCII lower-casing of the words of the model's vocabulary
\* (HeaderName::from_bytes, the URL parser's scheme and host states).
Lower(w) ==
    CASE w = "X-Foo" -> "x-foo"
      [] w = "X-FOO" -> "x-foo"
      [] w = "Accept" -> "accept"
      [] w = "EXAMPLE.com" -> "example.com"
      [] w = "HTTP" -> "http"
      [] OTHER -> w

\* The text of one Unicode scalar value.
CharStr(cp) ==
    CASE cp = 49 -> "1"
      [] cp = 50 -> "2"
      [] cp = 97 -> "a"
      [] cp = 123 -> "{"
      [] cp = 65533 -> "<U+FFFD>"
      [] OTHER -> "<U+" \o ToString(cp) \o ">"

IsCont(b) == b >= 128 /\ b <= 191

\* Number of bytes a UTF-8 lead byte announces; 0 for a byte that cannot lead.
Utf8Width(b) ==
    IF b < 128 THEN 1
    ELSE IF b >= 194 /\ b <= 223 THEN 2
    ELSE IF b >= 224 /\ b <= 239 THEN 3
    ELSE IF b >= 240 /\ b <= 244 THEN 4
    ELSE 0

\* Whether c may be the second byte after lead byte b (core::str::validations).
SecondOk(b, c) ==
    CASE b = 224 -> c >= 160 /\ c <= 191
      [] b = 237 -> c >= 128 /\ c <= 159
      [] b = 240 -> c >= 144 /\ c <= 191
      [] b = 244 -> c >= 128 /\ c <= 143
      [] OTHER -> IsCont(c)

\* Length of the longest prefix of bs[i..] that is a prefix of a well-formed
\* UTF-8 sequence led by bs[i] (0 when bs[i] cannot lead).
GoodPrefix(bs, i) ==
    LET w == Utf8Width(bs[i])
        ok(k) == /\ i + k <= Len(bs)
                 /\ IF k = 1 THEN SecondOk(bs[i], bs[i + 1]) ELSE IsCont(bs[i + k])
    IN  IF w = 0 THEN 0
        ELSE IF w >= 2 /\ ~ok(1) THEN 1
        ELSE IF w >= 3 /\ ~ok(2) THEN 2
        ELSE IF w >= 4 /\ ~ok(3) THEN 3
        ELSE w

\* Whether a complete well-formed character starts at bs[i].
CharAt(bs, i) == Utf8Width(bs[i]) > 0 /\ GoodPrefix(bs, i) = Utf8Width(bs[i])
                 /\ i + Utf8Width(bs[i]) - 1 <= Len(bs)

\* The scalar value of the well-formed character at bs[i].
CodePoint(bs, i) ==
    LET w == Utf8Width(bs[i])
    IN  CASE w = 1 -> bs[i]
          [] w = 2 -> (bs[i] - 192) * 64 + (bs[i + 1] - 128)
          [] w = 3 -> (bs[i] - 224) * 4096 + (bs[i + 1] - 128) * 64 + (bs[i + 2] - 128)
          [] OTHER -> (bs[i] - 240) * 262144 + (bs[i + 1] - 128) * 4096
                      + (bs[i + 2] - 128) * 64 + (bs[i + 3] - 128)

RECURSIVE Utf8ValidFrom(_, _)
Utf8ValidFrom(bs, i) ==
    IF i > Len(bs) THEN TRUE
    ELSE CharAt(bs, i) /\ Utf8ValidFrom(bs, i + Utf8Width(bs[i]))

RECURSIVE LossyFrom(_, _)
\* String::from_utf8_lossy: every maximal ill-formed part becomes U+FFFD.
LossyFrom(bs, i) ==
    IF i > Len(bs) THEN ""
    ELSE IF CharAt(bs, i)
         THEN CharStr(CodePoint(bs, i)) \o LossyFrom(bs, i + Utf8Width(bs[i]))
         ELSE LET g == GoodPrefix(bs, i)
              IN  CharStr(65533) \o LossyFrom(bs, i + (IF g = 0 THEN 1 ELSE g))

FromUtf8Lossy(bs) == LossyFrom(bs, 1)

\* String::from_utf8: Ok(text) for well-formed bytes, Err otherwise.
FromUtf8(bs) == IF Utf8ValidFrom(bs, 1) THEN Some(LossyFrom(bs, 1)) ELSE None

\* ------------------------------------------------------------ http::Uri
\* A request target as http::Uri holds it: "" stands for an absent part.
\*   origin-form     scheme = "", host = "",  pq # ""
\*   absolute-form   scheme # "", host # ""
\*   authority-form  scheme = "", host # "",  pq = ""   (the target of CONNECT)
HostWords == {"localhost", "EXAMPLE.com", "127.0.0.1"}
PortWords == {"", "80", "8080", "99999"}
PathWords == {"/", "/a/b?x=1"}

OriginTargets == {[scheme |-> "", host |-> "", port |-> "", pq |-> q] : q \in PathWords}
AbsoluteTargets ==
    {[scheme |-> "http", host |-> h, port |-> n, pq |-> q] :
        h \in HostWords, n \in PortWords, q \in {"", "/a/b?x=1"}}
AuthorityTargets ==
    {[scheme |-> "", host |-> h, port |-> n, pq |-> ""] : h \in HostWords, n \in PortWords}
Targets == OriginTargets \cup AbsoluteTargets \cup AuthorityTargets

\* Uri::authority()
UriAuthority(u) ==
    IF u.host = "" THEN None
    ELSE Some(IF u.port = "" THEN <<u.host>> ELSE <<u.host, ":", u.port>>)

\* Uri::path() followed by "?query": an absolute-form target prints "/" for an
\* empty path, an authority-form target prints nothing.
UriPathAndQuery(u) ==
    IF u.pq # "" THEN <<u.pq>>
    ELSE IF u.scheme # "" THEN <<"/">>
    ELSE <<>>

\* impl Display for Uri
UriToString(u) ==
    (IF u.scheme # "" THEN <<u.scheme, "://">> ELSE <<>>)
    \o (IF UriAuthority(u) # None THEN UriAuthority(u)[1] ELSE <<>>)
    \o UriPathAndQuery(u)

\* ------------------------------------------------------------- url::Url
\* Words that can be a URL scheme: an ASCII letter, then letters, digits, + - .
IsSchemeWord(w) == w \in {"http", "HTTP", "localhost", "EXAMPLE.com", "example.com"}
IsSpecialScheme(s) == s \in {"http", "https", "ws", "wss", "ftp", "file"}
DefaultPort(s) == IF s = "http" THEN 80 ELSE IF s = "https" THEN 443 ELSE 0
PortNumber(w) ==
    CASE w = "80" -> 80
      [] w = "8080" -> 8080
      [] w = "99999" -> 99999

\* The authority and path of a URL with a special scheme.
ParseSpecial(scheme, rest) ==
    LET hasPort == Len(rest) >= 3 /\ rest[2] = ":"
        after == IF hasPort THEN SubSeq(rest, 4, Len(rest)) ELSE SubSeq(rest, 2, Len(rest))
    IN  IF rest = <<>> THEN None
        ELSE IF hasPort /\ PortNumber(rest[3]) > 65535 THEN None
        ELSE Some([scheme |-> scheme,
                   host |-> Lower(rest[1]),
                   port |-> IF hasPort /\ PortNumber(rest[3]) # DefaultPort(scheme)
                            THEN rest[3] ELSE "",
                   path |-> IF after = <<>> THEN "/" ELSE Concat(after)])

\* str::parse::<Url>(): Url::parse without a base URL.  A text that starts
\* with no scheme is an error (relative URL without a base); "word:rest" with
\* a non-special scheme is a URL with an opaque path and no authority.
ParseUrl(s) ==
    IF Len(s) >= 2 /\ IsSchemeWord(s[1]) /\ s[2] = "://" /\ IsSpecialScheme(Lower(s[1]))
    THEN ParseSpecial(Lower(s[1]), SubSeq(s, 3, Len(s)))
    ELSE IF Len(s) >= 2 /\ IsSchemeWord(s[1]) /\ s[2] = ":" /\ ~IsSpecialScheme(Lower(s[1]))
    THEN Some([scheme |-> Lower(s[1]), host |-> "", port |-> "",
               path |-> Concat(SubSeq(s, 3, Len(s)))])
    ELSE None

\* impl Display for Url
UrlToString(url) ==
    IF url.host # ""
    THEN url.scheme \o "://" \o url.host
         \o (IF url.port # "" THEN ":" \o url.port ELSE "") \o url.path
    ELSE url.scheme \o ":" \o url.path

\* The text from_hyper hands to the URL parser.
TargetString(u) ==
    IF UriAuthority(u) # None THEN UriToString(u)
    ELSE <<"http", "://", "localhost">> \o UriToString(u)

\* let url = match ... .parse().unwrap(): None stands for the panic of unwrap.
ResolveUrl(u) == ParseUrl(TargetString(u))

\* ------------------------------------------------- headers of a request
HeaderNames == {"X-Foo", "x-foo", "Accept"}
HeaderValues == {<<49>>, <<50>>, <<255>>}
HeaderPairs == {[name |-> n, value |-> v] : n \in HeaderNames, v \in HeaderValues}
HeaderLists == UNION {[1..n -> HeaderPairs] : n \in 0..MaxHeaders}

\* Position of the entry of an http::HeaderMap that holds `name`, 0 if none.
EntryIndex(hm, name) ==
    IF \E i \in 1..Len(hm) : hm[i].name = name
    THEN CHOOSE i \in 1..Len(hm) : hm[i].name = name
    ELSE 0

\* HeaderMap::append: names are stored lower-cased; a repeated name adds the
\* value to the entry the name already has.
HeaderMapAppend(hm, pair) ==
    LET key == Lower(pair.name)
        i == EntryIndex(hm, key)
    IN  IF i = 0 THEN Append(hm, [name |-> key, values |-> <<pair.value>>])
        ELSE [hm EXCEPT ![i].values = Append(@, pair.value)]

RECURSIVE HeaderMapOf(_)
\* parts.headers: the HeaderMap the HTTP layer builds from the header lines
\* of the request, in arrival order.
HeaderMapOf(pairs) ==
    IF pairs = <<>> THEN <<>>
    ELSE HeaderMapAppend(HeaderMapOf(SubSeq(pairs, 1, Len(pairs) - 1)), pairs[Len(pairs)])

RECURSIVE HeaderMapIter(_)
\* HeaderMap::iter(): entry by entry, each entry's values in the order added.
HeaderMapIter(hm) ==
    IF hm = <<>> THEN <<>>
    ELSE [k \in 1..Len(hm[1].values) |-> [name |-> hm[1].name, value |-> hm[1].values[k]]]
         \o HeaderMapIter(Tail(hm))

\* EntryPush with the bug of storing the value in place of the list so far
\* (headers.insert(name, vec![value])).
MutEntryPush(map, name, value) ==
    [k \in DOMAIN map \cup {name} |-> IF k = name THEN <<value>> ELSE map[k]]

\* headers.entry(name).and_modify(|values| values.push(value))
\*        .or_insert_with(|| vec![value])
EntryPush(map, name, value) ==
    IF name \in DOMAIN map
    THEN [map EXCEPT ![name] = Append(@, value)]
    ELSE [k \in DOMAIN map \cup {name} |-> IF k = name THEN <<value>> ELSE map[k]]

RECURSIVE AggregateFrom(_, _)
\* The for loop of from_hyper over parts.headers.iter(), on the map so far.
AggregateFrom(map, items) ==
    IF items = <<>> THEN map
    ELSE AggregateFrom(EntryPush(map, items[1].name, items[1].value), Tail(items))

\* HashMap::new()
EmptyMap == [k \in {} |-> <<>>]

\* The HashMap<HeaderName, Vec<HeaderValue>> of a request with these headers.
AggregateHeaders(pairs) == AggregateFrom(EmptyMap, HeaderMapIter(HeaderMapOf(pairs)))

\* The orders in which a HashMap with key set S may iterate: fixed for one
\* map, chosen by its hasher.
IterOrders(S) ==
    {o \in [1..Cardinality(S) -> S] : \A i, j \in 1..Cardinality(S) : o[i] = o[j] => i = j}

\* headers.get(&name) for a name given in any casing: HeaderName construction
\* lower-cases it.
Lookup(map, name) == IF Lower(name) \in DOMAIN map THEN Some(map[Lower(name)]) ELSE None

\* ----------------------------------------------------------- body source
\* A body source is the bytes the peer sends and, possibly, the number of bytes
\* after which the transport fails instead of delivering more.
BodyBytes == {97, 255}
BodyDatas == UNION {[1..n -> BodyBytes] : n \in 0..MaxBody}
BodySources ==
    UNION {{[data |-> d, failAt |-> f] :
               f \in {None} \cup {Some(n) : n \in 0..Len(d)}} : d \in BodyDatas}

\* Bytes the stream can still deliver after n were read.
Deliverable(src, n) ==
    IF src.failAt = None THEN Len(src.data) - n ELSE src.failAt[1] - n

\* StreamEnded with the bug of taking a stream with nothing ready for a
\* stream that has ended.
MutStreamEnded(src, n) == src.failAt = None /\ n >= 0

\* body.data() yields None: the stream ended cleanly after n bytes.
StreamEnded(src, n) == src.failAt = None /\ n = Len(src.data)

\* body.data() yields Some(Err(_)) after n bytes.
StreamFails(src, n) == src.failAt # None /\ n = src.failAt[1]

Methods == {"GET", "POST", "CONNECT"}

\* ---------------------------------------------------------------- state
VARIABLES
    raw,       \* raw[p]: the hyper::Request handed to capture p
    pc,        \* pc[p]: where the future of from_hyper stands
    polling,   \* polling[p]: the future is being polled by an executor thread
    url,       \* url[p]: the local `url`, None until resolved
    hdrs,      \* hdrs[p]: the local `headers` map and its iteration order
    buf,       \* buf[p]: the bytes to_bytes has collected so far
    rd,        \* rd[p]: how many bytes have been read off the body source
    source,    \* source[p]: "Available" while the body source exists, then "Consumed"
    snapshot,  \* snapshot[p]: the Request returned, None until then
    rendered   \* rendered[p]: the outcomes of the calls of to_string on it

vars == <<raw, pc, polling, url, hdrs, buf, rd, source, snapshot, rendered>>

RawRequest(m, u, h, b) == [method |-> m, uri |-> u, headers |-> h, body |-> b]

OriginRoot == [scheme |-> "", host |-> "", port |-> "", pq |-> "/"]
OriginQuery == [scheme |-> "", host |-> "", port |-> "", pq |-> "/a/b?x=1"]
NoBody == [data |-> <<>>, failAt |-> None]

\* The raw requests of the concurrent specification: a plain GET, a POST with
\* a repeated header and a two-byte body, two authority-form targets (one
\* that the URL parser rejects, one that it accepts), a body whose transport
\* fails after one byte, and a header value that is not UTF-8.
SampleRaws ==
    { RawRequest("GET", OriginRoot, <<>>, NoBody),
      RawRequest("POST", OriginQuery,
                 <<[name |-> "X-Foo", value |-> <<49>>], [name |-> "x-foo", value |-> <<50>>]>>,
                 [data |-> <<97, 255>>, failAt |-> None]),
      RawRequest("CONNECT", [scheme |-> "", host |-> "127.0.0.1", port |-> "8080", pq |-> ""],
                 <<>>, [data |-> <<97>>, failAt |-> None]),
      RawRequest("CONNECT", [scheme |-> "", host |-> "localhost", port |-> "8080", pq |-> ""],
                 <<>>, NoBody),
      RawRequest("POST", OriginRoot, <<[name |-> "Accept", value |-> <<255>>]>>,
                 [data |-> <<97, 97>>, failAt |-> Some(1)]),
      RawRequest("GET", OriginRoot, <<[name |-> "Accept", value |-> <<255>>]>>, NoBody) }

\* The raw requests of the sequential specification: every target, every
\* header list and every body source, each with the other parts plain.
TargetCases == {RawRequest(m, u, <<>>, NoBody) : m \in Methods, u \in Targets}
HeaderCases == {RawRequest("GET", OriginRoot, h, NoBody) : h \in HeaderLists}
BodyCases ==
    {RawRequest("POST", u, <<[name |-> "Accept", value |-> <<49>>]>>, b) :
        u \in {OriginQuery}, b \in BodySources}
SeqRaws == TargetCases \cup HeaderCases \cup BodyCases

NoHeaders == [map |-> EmptyMap, order |-> <<>>]

InitLocals ==
    /\ polling = [p \in Procs |-> FALSE]
    /\ url = [p \in Procs |-> None]
    /\ hdrs = [p \in Procs |-> NoHeaders]
    /\ buf = [p \in Procs |-> <<>>]
    /\ rd = [p \in Procs |-> 0]
    /\ source = [p \in Procs |-> "Available"]
    /\ snapshot = [p \in Procs |-> None]
    /\ rendered = [p \in Procs |-> <<>>]

\* NProcs futures of from_hyper have been created, none polled yet.
Init ==
    /\ raw \in [Procs -> SampleRaws]
    /\ pc = [p \in Procs |-> "created"]
    /\ InitLocals

\* One future of from_hyper has been created; the other slots stay unused.
InitSeq ==
    /\ raw \in {[p \in Procs |-> IF p = 1 THEN r ELSE RawRequest("GET", OriginRoot, <<>>, NoBody)] :
                   r \in SeqRaws}
    /\ pc = [p \in Procs |-> IF p = 1 THEN "created" ELSE "absent"]
    /\ InitLocals

Terminal == {"done", "panic_url", "panic_body", "cancelled"}

\* DropBody with the bug of draining through a borrow, which leaves the body
\* source in the hands of the caller.
MutDropBody(src, p) == [src EXCEPT ![p] = @]

\* The body source is moved into to_bytes and dropped with it.
DropBody(src, p) == [src EXCEPT ![p] = "Consumed"]

\* AppendChunk with the bug of one buffer shared by all captures.
MutAppendChunk(b, p, chunk) == [b EXCEPT ![1] = @ \o chunk]

\* vec.put(buf) of to_bytes: the chunk joins the bytes collected by capture p.
AppendChunk(b, p, chunk) == [b EXCEPT ![p] = @ \o chunk]

\* StageAfter with the bug of draining the body first and resolving the url
\* and the headers after it.
MutStageAfter(stage) ==
    CASE stage = "created" -> "drain"
      [] stage = "drain" -> "resolve"
      [] stage = "resolve" -> "aggregate"
      [] stage = "aggregate" -> "done"

\* The stage a capture enters after `stage` (the statement order of from_hyper).
StageAfter(stage) ==
    CASE stage = "created" -> "resolve"
      [] stage = "resolve" -> "aggregate"
      [] stage = "aggregate" -> "drain"
      [] stage = "drain" -> "done"

\* An executor thread polls the future: the first poll enters the body of
\* from_hyper, a later one resumes it at the .await of to_bytes.
Poll(p) ==
    /\ pc[p] \in {"created", "drain"}
    /\ ~polling[p]
    /\ polling' = [polling EXCEPT ![p] = TRUE]
    /\ pc' = [pc EXCEPT ![p] = IF pc[p] = "created" THEN StageAfter("created") ELSE @]
    /\ UNCHANGED <<raw, url, hdrs, buf, rd, source, snapshot, rendered>>

\* request.into_parts(), the method, and the url: the target is printed,
\* parsed and unwrapped.  The unwrap of a parse error panics; unwinding drops
\* the body source unread.
Resolve(p) ==
    /\ pc[p] = "resolve"
    /\ polling[p]
    /\ LET r == ResolveUrl(raw[p].uri)
       IN  IF r = None
           THEN /\ pc' = [pc EXCEPT ![p] = "panic_url"]
                /\ polling' = [polling EXCEPT ![p] = FALSE]
                /\ source' = DropBody(source, p)
                /\ UNCHANGED url
           ELSE /\ url' = [url EXCEPT ![p] = r]
                /\ pc' = [pc EXCEPT ![p] = StageAfter("resolve")]
                /\ UNCHANGED <<polling, source>>
    /\ UNCHANGED <<raw, hdrs, buf, rd, snapshot, rendered>>

\* let mut headers = HashMap::new(); for (name, value) in parts.headers.iter()
Aggregate(p) ==
    /\ pc[p] = "aggregate"
    /\ polling[p]
    /\ LET m == AggregateHeaders(raw[p].headers)
       IN  \E o \in IterOrders(DOMAIN m) :
               hdrs' = [hdrs EXCEPT ![p] = [map |-> m, order |-> o]]
    /\ pc' = [pc EXCEPT ![p] = StageAfter("aggregate")]
    /\ UNCHANGED <<raw, polling, url, buf, rd, source, snapshot, rendered>>

\* body.data().await is Ready(Some(Ok(chunk))): a chunk of k bytes arrives.
DrainChunk(p) ==
    /\ pc[p] = "drain"
    /\ polling[p]
    /\ source[p] = "Available"
    /\ \E k \in 1..MaxBody :
          /\ k <= Deliverable(raw[p].body, rd[p])
          /\ buf' = AppendChunk(buf, p, SubSeq(raw[p].body.data, rd[p] + 1, rd[p] + k))
          /\ rd' = [rd EXCEPT ![p] = @ + k]
    /\ UNCHANGED <<raw, pc, polling, url, hdrs, source, snapshot, rendered>>

\* body.data().await is Pending: the future returns Pending and the task
\* yields until the body source wakes it.
DrainPending(p) ==
    /\ pc[p] = "drain"
    /\ polling[p]
    /\ source[p] = "Available"
    /\ polling' = [polling EXCEPT ![p] = FALSE]
    /\ UNCHANGED <<raw, pc, url, hdrs, buf, rd, source, snapshot, rendered>>

\* body.data().await is Ready(Some(Err(e))): to_bytes returns Err(e) and
\* .expect("Failed to read request body.") panics.
DrainError(p) ==
    /\ pc[p] = "drain"
    /\ polling[p]
    /\ source[p] = "Available"
    /\ StreamFails(raw[p].body, rd[p])
    /\ pc' = [pc EXCEPT ![p] = "panic_body"]
    /\ polling' = [polling EXCEPT ![p] = FALSE]
    /\ buf' = [buf EXCEPT ![p] = <<>>]
    /\ source' = DropBody(source, p)
    /\ UNCHANGED <<raw, url, hdrs, rd, snapshot, rendered>>

\* body.data().await is Ready(None): to_bytes returns the bytes collected and
\* from_hyper returns Self { url, method, headers, body }.
DrainEnd(p) ==
    /\ pc[p] = "drain"
    /\ polling[p]
    /\ source[p] = "Available"
    /\ StreamEnded(raw[p].body, rd[p])
    /\ url[p] # None
    /\ snapshot' = [snapshot EXCEPT ![p] =
                       Some([url |-> url[p][1], method |-> raw[p].method,
                             headers |-> hdrs[p].map, order |-> hdrs[p].order,
                             body |-> buf[p]])]
    /\ pc' = [pc EXCEPT ![p] = StageAfter("drain")]
    /\ polling' = [polling EXCEPT ![p] = FALSE]
    /\ source' = DropBody(source, p)
    /\ UNCHANGED <<raw, url, hdrs, buf, rd, rendered>>

\* The task that awaits the future is cancelled: the future is dropped while
\* it is not being polled, and its locals with it.
Cancel(p) ==
    /\ pc[p] \in {"created", "drain"}
    /\ ~polling[p]
    /\ pc' = [pc EXCEPT ![p] = "cancelled"]
    /\ buf' = [buf EXCEPT ![p] = <<>>]
    /\ source' = DropBody(source, p)
    /\ UNCHANGED <<raw, polling, url, hdrs, rd, snapshot, rendered>>

\* for (name, values) in &self.headers: one line per key, each value through
\* String::from_utf8(..).unwrap().  None stands for the panic of unwrap.
HeaderLines(snap) ==
    IF \E k \in DOMAIN snap.headers :
          \E i \in 1..Len(snap.headers[k]) : FromUtf8(snap.headers[k][i]) = None
    THEN None
    ELSE Some(Concat([n \in 1..Len(snap.order) |->
                 LET name == snap.order[n]
                     values == [i \in 1..Len(snap.headers[name]) |->
                                   FromUtf8(snap.headers[name][i])[1]]
                 IN  name \o ": " \o Join(values, ",") \o "\n"]))

\* impl fmt::Display for Request, called through to_string.
Display(snap) ==
    IF HeaderLines(snap) = None THEN None
    ELSE Some(snap.method \o " " \o UrlToString(snap.url) \o "\n"
              \o HeaderLines(snap)[1]
              \o FromUtf8Lossy(snap.body) \o "\n")

\* A consumer renders the snapshot.
Render(p) ==
    /\ pc[p] = "done"
    /\ snapshot[p] # None
    /\ Len(rendered[p]) < MaxRenders
    /\ rendered' = [rendered EXCEPT ![p] = Append(@, Display(snapshot[p][1]))]
    /\ UNCHANGED <<raw, pc, polling, url, hdrs, buf, rd, source, snapshot>>

Next ==
    \E p \in Procs :
        \/ Poll(p)
        \/ Resolve(p)
        \/ Aggregate(p)
        \/ DrainChunk(p)
        \/ DrainPending(p)
        \/ DrainError(p)
        \/ DrainEnd(p)
        \/ Cancel(p)
        \/ Render(p)

Spec == Init /\ [][Next]_vars

SpecSeq == InitSeq /\ [][Next]_vars

\* ------------------------------------------------------------ the claims
Snap(p) == snapshot[p][1]

CaseEq(a, b) == Lower(a) = Lower(b)

RECURSIVE ValuesNamed(_, _)
\* The values of the pairs whose name is `key` in some casing, in arrival order.
ValuesNamed(pairs, key) ==
    IF pairs = <<>> THEN <<>>
    ELSE (IF CaseEq(pairs[1].name, key) THEN <<pairs[1].value>> ELSE <<>>)
         \o ValuesNamed(Tail(pairs), key)

\* Capture p has got past the statement that resolves the url.
PastResolve(p) == pc[p] \in {"aggregate", "drain", "done", "panic_url", "panic_body"}

\* C1: a capture whose target text does not parse as a URL ends by returning
\* CaptureError::Transport: it does not panic and yields no snapshot.
C1_TransportErrorReturned ==
    \A p \in Procs :
        ResolveUrl(raw[p].uri) = None =>
            /\ pc[p] # "panic_url"
            /\ snapshot[p] = None
            /\ (PastResolve(p) => pc[p] = "err_transport")

\* C2: a capture whose body drain fails ends by returning
\* CaptureError::BodyRead: it does not panic and yields no snapshot.
C2_BodyReadErrorReturned ==
    \A p \in Procs :
        /\ pc[p] # "panic_body"
        /\ (StreamFails(raw[p].body, rd[p]) /\ pc[p] \in {"done", "panic_body"} =>
                pc[p] = "err_body_read" /\ snapshot[p] = None)

\* C3: rendering a snapshot always returns text, also when a header value is
\* not valid UTF-8.
C3_RenderNeverFails ==
    \A p \in Procs : \A i \in 1..Len(rendered[p]) : rendered[p][i] # None

\* C4: the header map of a snapshot has exactly one key per name of the
\* request's header pairs, names compared without regard to case; the list of
\* a key is the values of the pairs with that name, in arrival order and
\* unchanged; looking a name up in any casing returns that list.
C4_HeaderAggregation ==
    \A p \in Procs :
        snapshot[p] # None =>
            LET map == Snap(p).headers
                pairs == raw[p].headers
            IN  /\ \A i \in 1..Len(pairs) :
                      Cardinality({k \in DOMAIN map : CaseEq(k, pairs[i].name)}) = 1
                /\ \A k \in DOMAIN map :
                      /\ \E i \in 1..Len(pairs) : CaseEq(k, pairs[i].name)
                      /\ map[k] = ValuesNamed(pairs, k)
                /\ \A n \in HeaderNames \cup {"X-FOO"} :
                      Lookup(map, n) =
                          IF ValuesNamed(pairs, n) = <<>> THEN None
                          ELSE Some(ValuesNamed(pairs, n))

\* C4 witness: ("X-Foo", "1") then ("x-foo", "2") were captured and are found
\* under "X-FOO" as ["1", "2"].
C4_Witness ==
    \E p \in Procs :
        /\ snapshot[p] # None
        /\ raw[p].headers = <<[name |-> "X-Foo", value |-> <<49>>],
                              [name |-> "x-foo", value |-> <<50>>]>>
        /\ Lookup(Snap(p).headers, "X-FOO") = Some(<<<<49>>, <<50>>>>)

IsOriginForm(u) == u.host = "" /\ u.scheme = ""
IsAbsoluteForm(u) == u.host # "" /\ u.scheme # ""

\* C5: the url of every snapshot is absolute, with a scheme, an authority and
\* a path; for an absolute-form target it is the target reparsed, for an
\* origin-form target it is "http://localhost" followed by the target.
C5_UrlAbsolute ==
    \A p \in Procs :
        snapshot[p] # None =>
            LET u == Snap(p).url
                t == raw[p].uri
            IN  /\ u.scheme # "" /\ u.host # "" /\ u.path # ""
                /\ (IsAbsoluteForm(t) => Some(u) = ParseUrl(UriToString(t)))
                /\ (IsOriginForm(t) => UrlToString(u) = "http://localhost" \o t.pq)

C7_FullyDrained ==
    \A p \in Procs :
        /\ snapshot[p] # None =>
              /\ pc[p] = "done"
              /\ Snap(p).body = raw[p].body.data
              /\ rd[p] = Len(raw[p].body.data)
              /\ raw[p].body.failAt = None
        /\ pc[p] # "done" => snapshot[p] = None

\* C7 witness: a snapshot holds a body of two bytes.
C7_Witness ==
    \E p \in Procs : snapshot[p] # None /\ Snap(p).body = <<97, 255>>

\* What the capture of raw request r gives when it runs alone and to its end.
CaptureAlone(r) ==
    IF ResolveUrl(r.uri) = None THEN [kind |-> "panic_url"]
    ELSE IF r.body.failAt # None THEN [kind |-> "panic_body"]
    ELSE [kind |-> "snapshot", url |-> ResolveUrl(r.uri)[1], method |-> r.method,
          headers |-> AggregateHeaders(r.headers), body |-> r.body.data]

\* Everything the model holds about capture p.
ProcState(p) ==
    <<raw[p], pc[p], polling[p], url[p], hdrs[p], buf[p], rd[p], source[p],
      snapshot[p], rendered[p]>>

\* C8: whatever the interleaving, the outcome of a capture is the outcome its
\* raw request gives alone, and a step of one capture leaves every other
\* capture as it was.
C8_Independent ==
    /\ [](\A p \in Procs :
            LET alone == CaptureAlone(raw[p])
            IN  /\ pc[p] = "done" =>
                      /\ alone.kind = "snapshot"
                      /\ Snap(p).url = alone.url
                      /\ Snap(p).method = alone.method
                      /\ Snap(p).headers = alone.headers
                      /\ Snap(p).body = alone.body
                /\ pc[p] = "panic_url" => alone.kind = "panic_url"
                /\ pc[p] = "panic_body" => alone.kind = "panic_body")
    /\ [][\A p, q \in Procs :
            p # q /\ ProcState(p)' # ProcState(p) => ProcState(q)' = ProcState(q)]_vars

\* C8 witness: two captures, each of a body of two bytes, have both returned.
C8_Witness ==
    \E p, q \in Procs :
        /\ p # q
        /\ pc[p] = "done" /\ Snap(p).body = <<97, 255>>
        /\ pc[q] = "done" /\ Snap(q).body = <<97, 255>>

\* The text the renderer is to give for a snapshot: header values and body
\* decoded with substitution.
RenderedText(snap) ==
    snap.method \o " " \o UrlToString(snap.url) \o "\n"
    \o Concat([n \in 1..Len(snap.order) |->
                  snap.order[n] \o ": "
                  \o Join([i \in 1..Len(snap.headers[snap.order[n]]) |->
                              FromUtf8Lossy(snap.headers[snap.order[n]][i])], ",")
                  \o "\n"])
    \o FromUtf8Lossy(snap.body) \o "\n"

\* C9: every rendering of a snapshot is the method and url line, one line per
\* header key with its values joined by ",", and the body line; a GET of
\* http://localhost/ without headers or body renders as
\* "GET http://localhost/\n\n".
C9_RenderFormat ==
    \A p \in Procs : \A i \in 1..Len(rendered[p]) :
        /\ rendered[p][i] = Some(RenderedText(Snap(p)))
        /\ (raw[p] = RawRequest("GET", OriginRoot, <<>>, NoBody) =>
                rendered[p][i] = Some("GET http://localhost/\n\n"))

\* C10: the url is resolved and the headers are aggregated before the first
\* byte of the body is read; a capture that fails on its url has read nothing;
\* the future gives up the thread unfinished only while it drains.
C10_DrainLast ==
    /\ [](\A p \in Procs :
            /\ pc[p] \in {"drain", "done", "panic_body"} =>
                  url[p] # None /\ hdrs[p].map = AggregateHeaders(raw[p].headers)
            /\ rd[p] > 0 => pc[p] \in {"drain", "done", "panic_body", "cancelled"}
            /\ pc[p] = "panic_url" => rd[p] = 0 /\ buf[p] = <<>>)
    /\ [][\A p \in Procs :
            polling[p] /\ ~polling'[p] /\ pc'[p] \notin Terminal => pc[p] = "drain"]_vars

\* C10 witness: a capture has failed on its url and its body, which is not
\* empty, is unread.
C10_Witness ==
    \E p \in Procs : pc[p] = "panic_url" /\ rd[p] = 0 /\ raw[p].body.data # <<>>

====
